---- MODULE Spec2Model ----
(***************************************************************************)
(* The sign-in handler of credentialsPlugin (src/src/server.ts) as a state *)
(* machine: concurrent requests, each advancing from one await to the      *)
(* next, against the external user store, session store, verifier, hook    *)
(* and cookie helper.                                                      *)
(***************************************************************************)
EXTENDS Naturals, Sequences, FiniteSets

\* ------------------------------------------------------------------ bounds

\* Number of concurrent sign-in requests in the race specification.
NumReqs == 2

\* ------------------------------------------------------- program constants

\* 60 * 60 * 24 * 7: the default session expiry in seconds.
SevenDays == 604800
\* The sessionExpiresIn the tests configure.
TestExpiry == 1234
\* The retry loop's bound: attempt < 3.
MaxAttempts == 3

\* ------------------------------------------------------------------ strings
\* A string is a sequence of one-character strings.

NoStr == << >>
IsSpace(c) == c = " "

\* String.prototype.toLowerCase, on the alphabet the model uses.
LowerChar(c) == IF c = "A" THEN "a" ELSE IF c = "X" THEN "x" ELSE c
ToLowerCase(s) == [i \in DOMAIN s |-> LowerChar(s[i])]

RECURSIVE TrimStart(_)
TrimStart(s) == IF s # << >> /\ IsSpace(Head(s)) THEN TrimStart(Tail(s)) ELSE s

RECURSIVE TrimEnd(_)
TrimEnd(s) ==
  IF s # << >> /\ IsSpace(s[Len(s)]) THEN TrimEnd(SubSeq(s, 1, Len(s) - 1)) ELSE s

\* String.prototype.trim
Trim(s) == TrimEnd(TrimStart(s))

\* A mutant of NormalizeEmail: the trim without the lower-casing.
NormalizeEmail_NoLower(raw) == Trim(raw)

\* A mutant of NormalizeEmail: the lower-casing without the trim.
NormalizeEmail_NoTrim(raw) == ToLowerCase(raw)

\* const email = String(rawEmail).trim().toLowerCase();
NormalizeEmail(raw) == ToLowerCase(Trim(raw))

\* The e-mail address a stored or verified spelling denotes (the reference the
\* properties compare against; the handler does not use it).
Canon(s) ==
  LET t == SelectSeq(s, LAMBDA c : ~IsSpace(c))
  IN  [i \in DOMAIN t |-> IF t[i] = "A" THEN "a" ELSE IF t[i] = "X" THEN "x" ELSE t[i]]

\* ------------------------------------------------------------------- inputs

MailA == <<"a", "@", "x">>
MailAUpper == <<" ", "A", "@", "X", " ">>
MailB == <<"b", "@", "x">>
MailBlank == <<" ">>

\* VerifyResult: { ok: true, user: { email, name? } } | { ok: false, ... }.
\* hasEmail = FALSE is a user object without the email field.
Rejected == [ok |-> FALSE, hasEmail |-> FALSE, email |-> NoStr]
VerifiedAs(e) == [ok |-> TRUE, hasEmail |-> TRUE, email |-> e]
VerifiedNoEmail == [ok |-> TRUE, hasEmail |-> FALSE, email |-> NoStr]

AllVerifyResults ==
  {Rejected, VerifiedNoEmail} \cup
  {VerifiedAs(e) : e \in {NoStr, MailBlank, MailA, MailAUpper, MailB}}

\* The verifier answers of the race scenario: spellings of one address.
SameMailVerifyResults == {VerifiedAs(MailA), VerifiedAs(MailAUpper)}

\* A JavaScript null, and a field that is not given.
Null == "null"
NoName == <<"undefined">>

\* The headers the handler reads: x-forwarded-for, cf-connecting-ip and
\* user-agent (Null: the header is not sent).
DefaultHeaders ==
  [forwardedFor |-> "1.1.1.1", connectingIp |-> Null, userAgent |-> "curl"]
AllHeaders ==
  [forwardedFor : {Null, "1.1.1.1"}, connectingIp : {Null, "2.2.2.2"},
   userAgent : {Null, "curl"}]

\* input.rememberMe: true, false, or not given.
RememberValues == {"true", "false", "absent"}

\* A call of the endpoint: whether it carries a Request object (ctx.request;
\* a server-side call of the endpoint has none), whether its parsed body
\* passes inputSchema.safeParse, its rememberMe field, and what opts.verify
\* answers for it.
\* and: whether the body has a key the schema does not declare, the name the
\* verifier gives the user, and the request headers the handler reads.
AllRequests ==
  [hasRequest : BOOLEAN, bodyOk : BOOLEAN, rememberMe : RememberValues,
   verify : AllVerifyResults, extra : {FALSE}, name : {NoName},
   headers : {DefaultHeaders}]

RaceRequests ==
  [hasRequest : {TRUE}, bodyOk : {TRUE}, rememberMe : {"absent"},
   verify : SameMailVerifyResults, extra : {FALSE}, name : {NoName},
   headers : {DefaultHeaders}]

\* CredentialsPluginOptions: autoSignUp (after ?? true), sessionExpiresIn
\* (0 stands for "not set"), whether onSessionData is configured.
AllOptions ==
  [autoSignUp : BOOLEAN, sessionExpiresIn : {0, TestExpiry}, hasHook : BOOLEAN]

RaceOptions ==
  [autoSignUp : {TRUE}, sessionExpiresIn : {0}, hasHook : {TRUE}]

\* An error object: its code and its message, a sequence of words.
NoError == [code |-> "", message |-> << >>]

\* The uniqueness violation of a store, as its driver raises it: PostgreSQL
\* (code and message), the same message without a code, SQLite, MySQL.
PgDuplicate ==
  [code |-> "23505",
   message |-> <<"duplicate", "key", "value", "violates", "unique", "constraint">>]
PgDuplicateNoCode == [PgDuplicate EXCEPT !.code = ""]
SqliteDuplicate ==
  [code |-> "SQLITE_CONSTRAINT_UNIQUE",
   message |-> <<"UNIQUE", "constraint", "failed", ":", "user.email">>]
MysqlDuplicate ==
  [code |-> "ER_DUP_ENTRY",
   message |-> <<"Duplicate", "entry", "for", "key", "user.email">>]

DuplicateErrors == {PgDuplicate, PgDuplicateNoCode, SqliteDuplicate, MysqlDuplicate}

\* How internalAdapter.findUserByEmail reports "no such user": an object
\* whose user field is null ({ user: null }), or no object at all (null).
AbsentShapes == {"wrapper", "null"}

\* session.expiresIn of the framework configuration, which setSessionCookie
\* applies to the cookie.
FrameworkExpiry == {SevenDays, TestExpiry}

\* What Date.now() reads, in milliseconds.
Times == {1000, 5000}

\* The collaborators the handler runs against: the store's way of reporting
\* an absent user and a duplicate, the framework's session.expiresIn, the
\* readings the clock can give, and
\* whether calls may
\* fail or yield nothing for reasons of their own (an unavailable store, a
\* raising hook, a hook with nothing to add, a hook that returns a key the
\* handler sets itself).
AllEnvs ==
  [absentShape : AbsentShapes, dupError : DuplicateErrors,
   fwExpiresIn : FrameworkExpiry, clock : {Times}, faults : {TRUE}]

RaceEnvs ==
  [absentShape : AbsentShapes, dupError : {PgDuplicate, MysqlDuplicate},
   fwExpiresIn : {SevenDays}, clock : {{1000}}, faults : {FALSE}]

\* -------------------------------------------------------------------- state

VARIABLES
  opts,        \* the plugin options closed over by the handler
  env,         \* the collaborators' behaviour
  users,       \* the user store: records [id, email, visible]
  req,         \* req[r]: the request's input
  pc,          \* pc[r]: the await the request is at
  email,       \* email[r]: the handler's local email
  user,        \* user[r]: the handler's local user (its id; 0 is null)
  attempt,     \* attempt[r]: the retry loop's counter
  session,     \* session[r]: what createSession was called with
  cookie,      \* cookie[r]: the Set-Cookie the response carries
  resp,        \* resp[r]: how the handler ended
  calls,       \* calls[r]: collaborator calls made by the request
  hist,        \* hist[r]: what the collaborators answered
  lib          \* a call of one of the package's helpers: its input and result

vars ==
  <<opts, env, users, req, pc, email, user, attempt, session, cookie,
    resp, calls, hist, lib>>

Reqs == DOMAIN pc

NoSession ==
  [made |-> FALSE, userId |-> "", dontRemember |-> FALSE, expiresIn |-> 0,
   now |-> 0, data |-> << >>]
NoCookie == [set |-> FALSE, maxAge |-> 0]
Pending == [kind |-> "pending", status |-> 0, message |-> "", userId |-> 0]
NoCalls == [verify |-> 0, find |-> 0, create |-> 0, hook |-> 0, session |-> 0]
NoHookArgs == [verified |-> Rejected, userId |-> 0, email |-> NoStr]
NoCreateArgs ==
  [email |-> NoStr, name |-> NoStr, image |-> Null, emailVerified |-> FALSE]
NoHist ==
  [unseen |-> FALSE, lookup |-> "none", create |-> "none", lastRetrySaw |-> "none",
   hook |-> "none", session |-> "none", steps |-> << >>, emails |-> {},
   hookArgs |-> NoHookArgs, createArgs |-> NoCreateArgs, verifyInput |-> {}]

\* No helper is being called.
NoLib == [fn |-> "none", done |-> FALSE]

InitOf(R, requests, options, envs) ==
  /\ lib = NoLib
  /\ opts \in options
  /\ env \in envs
  /\ users = {}
  /\ req \in [R -> requests]
  /\ pc = [r \in R |-> "recv"]
  /\ email = [r \in R |-> NoStr]
  /\ user = [r \in R |-> 0]
  /\ attempt = [r \in R |-> 0]
  /\ session = [r \in R |-> NoSession]
  /\ cookie = [r \in R |-> NoCookie]
  /\ resp = [r \in R |-> Pending]
  /\ calls = [r \in R |-> NoCalls]
  /\ hist = [r \in R |-> NoHist]

\* One request, every input and option.
Init == InitOf({1}, AllRequests, AllOptions, AllEnvs)

\* NumReqs concurrent requests verified for spellings of one address.
InitRace == InitOf(1 .. NumReqs, RaceRequests, RaceOptions, RaceEnvs)

\* ------------------------------------------------------- the external store

\* The records the store holds under exactly this e-mail string (the store's
\* unique key is the string it is given).
RecordsFor(e) == {u \in users : u.email = e}

NextUserId == Cardinality(users) + 1

\* What a createUser call yields: a record ("ok"), nothing ("undefined"),
\* or a raised error.
Returned(kind) == [kind |-> kind, err |-> NoError]
Raised(err) == [kind |-> "error", err |-> err]

\* A store failure that is no uniqueness violation: new Error('fail').
OtherErrors == { Raised([code |-> "", message |-> <<"fail">>]) }

\* internalAdapter.createUser against a store that enforces e-mail
\* uniqueness: a duplicate is refused, a new e-mail is inserted unless the
\* call fails or yields no record.
CreateUserOutcomes(e) ==
  (IF RecordsFor(e) # {} THEN {Raised(env.dupError)} ELSE {Returned("ok")})
  \cup (IF env.faults THEN {Returned("undefined")} \cup OtherErrors ELSE {})

\* What the onSessionData hook does: returns a mapping, returns a mapping
\* that also has the keys expiresAt, ipAddress and userAgent, returns
\* undefined, or raises.
HookOutcomes ==
  {"data"} \cup (IF env.faults THEN {"override", "undefined", "raises"} ELSE {})

\* The mapping the hook returned (undefined spreads as no keys).
HookMapping(out) ==
  IF out = "data" THEN [token |-> "jwt"]
  ELSE IF out = "override"
    THEN [token |-> "jwt", expiresAt |-> 1, ipAddress |-> "6.6.6.6",
          userAgent |-> "spoofed"]
  ELSE << >>

\* What internalAdapter.createSession yields: a record with an id, a record
\* whose id is empty, a raised error, or no record at all.
CreateSessionOutcomes ==
  {"ok"} \cup (IF env.faults THEN {"noId", "raises", "null"} ELSE {})

\* Another instance of the service signs a user up (e-mails are stored
\* normalised); the record is visible to readers once committed.
ExternalSignUp ==
  /\ RecordsFor(MailA) = {}
  /\ users' = users \cup {[id |-> NextUserId, email |-> MailA, visible |-> FALSE]}
  /\ UNCHANGED <<lib, opts, env, req, pc, email, user, attempt, session, cookie,
                 resp, calls, hist>>

Commit ==
  /\ \E u \in users :
       /\ ~u.visible
       /\ users' = (users \ {u}) \cup {[u EXCEPT !.visible = TRUE]}
  /\ UNCHANGED <<lib, opts, env, req, pc, email, user, attempt, session, cookie,
                 resp, calls, hist>>

\* ------------------------------------------------------------- the handler

\* A mutant of ApiError: every failure is reported as a server error.
ApiError_AlwaysServerError(status, message) ==
  [kind |-> "APIError", status |-> 500, message |-> message, userId |-> 0]

\* throw new APIError(code, { message })
ApiError(status, message) ==
  [kind |-> "APIError", status |-> status, message |-> message, userId |-> 0]

\* An error that is not an APIError leaves the handler.
Uncaught(kind) == [kind |-> kind, status |-> 0, message |-> "", userId |-> 0]

\* return ctx.json({ ok: true, userId: user.id })
JsonOk(id) == [kind |-> "json", status |-> 200, message |-> "", userId |-> id]

\* A mutant of SchemaRejects: the validation result is ignored.
SchemaRejects_Never(r) == FALSE

\* if (!parsed.success)
SchemaRejects(r) == ~req[r].bodyOk

\* const req = ctx.request; if (!req)
RequestMissing(r) == ~req[r].hasRequest

\* if (!req) throw ...; const parsed = inputSchema.safeParse(body);
\* if (!parsed.success) throw ...
Validate(r) ==
  /\ pc[r] = "recv"
  /\ IF RequestMissing(r)
       THEN /\ resp' = [resp EXCEPT ![r] = ApiError(500, "INTERNAL_SERVER_ERROR")]
            /\ pc' = [pc EXCEPT ![r] = "done"]
            /\ hist' = [hist EXCEPT ![r].steps = Append(@, "receive")]
       ELSE /\ hist' = [hist EXCEPT ![r].steps = Append(@, "validate")]
            /\ IF SchemaRejects(r)
                 THEN /\ resp' = [resp EXCEPT ![r] = ApiError(400, "INVALID_INPUT")]
                      /\ pc' = [pc EXCEPT ![r] = "done"]
                 ELSE /\ pc' = [pc EXCEPT ![r] = "verify"]
                      /\ UNCHANGED resp
  /\ UNCHANGED <<lib, opts, env, users, req, email, user, attempt, session,
                 cookie, calls>>

\* A mutant of VerifierRejects: a rejection is treated as a success.
VerifierRejects_Never(v) == FALSE

\* if (!verifyRes.ok)
VerifierRejects(v) == ~v.ok

\* A mutant of RawEmailFalsy: only a missing email is refused.
RawEmailFalsy_MissingOnly(v) == ~v.hasEmail

\* if (!rawEmail): the email is missing or the empty string.
RawEmailFalsy(v) == ~v.hasEmail \/ v.email = NoStr

\* The keys of the parsed body, and those the default schema declares.
BodyKeys(r) ==
  {"email", "password"}
  \cup (IF req[r].rememberMe = "absent" THEN {} ELSE {"rememberMe"})
  \cup (IF req[r].extra THEN {"isAdmin"} ELSE {})
SchemaKeys == {"email", "password", "rememberMe"}

\* parsed.data: the schema's object, which keeps the declared keys only.
ParsedData(r) == BodyKeys(r) \cap SchemaKeys

\* A mutant of VerifyInput: the verifier is given the body as it was parsed.
VerifyInput_RawBody(r) == BodyKeys(r)

\* const input = parsed.data; opts.verify({ input, req })
VerifyInput(r) == ParsedData(r)

\* await opts.verify(...), the ok check, the rawEmail check, the normalisation
Verify(r) ==
  /\ pc[r] = "verify"
  /\ calls' = [calls EXCEPT ![r].verify = @ + 1]
  /\ hist' = [hist EXCEPT ![r].steps = Append(@, "verify"),
                          ![r].verifyInput = VerifyInput(r)]
  /\ LET v == req[r].verify
     IN  IF VerifierRejects(v)
           THEN /\ resp' = [resp EXCEPT ![r] = ApiError(401, "INVALID_CREDENTIALS")]
                /\ pc' = [pc EXCEPT ![r] = "done"]
                /\ UNCHANGED email
           ELSE IF RawEmailFalsy(v)
             THEN /\ resp' = [resp EXCEPT ![r] =
                                ApiError(400, "Verifier must return user.email")]
                  /\ pc' = [pc EXCEPT ![r] = "done"]
                  /\ UNCHANGED email
             ELSE /\ email' = [email EXCEPT ![r] = NormalizeEmail(v.email)]
                  /\ pc' = [pc EXCEPT ![r] = "lookup"]
                  /\ UNCHANGED resp
  /\ UNCHANGED <<lib, opts, env, users, req, user, attempt, session, cookie>>

\* A mutant of FetchUserByEmail: the lookup ignores the e-mail.
FetchUserByEmail_AnyUser(e) ==
  LET found == {u \in users : u.visible}
  IN  IF found # {}
        THEN [threw |-> FALSE, user |-> (CHOOSE u \in found : TRUE).id]
        ELSE [threw |-> FALSE, user |-> 0]

\* fetchUserByEmail(e): (await internalAdapter.findUserByEmail?.(e)).user
\*   ?? (await adapter?.findUserByEmail?.(e)) ?? null.
\* Reading .user of a null result throws; the secondary adapter reads the
\* same store.
FetchUserByEmail(e) ==
  LET found == {u \in RecordsFor(e) : u.visible}
  IN  IF found # {}
        THEN [threw |-> FALSE, user |-> (CHOOSE u \in found : TRUE).id]
        ELSE IF env.absentShape = "null"
          THEN [threw |-> TRUE, user |-> 0]
          ELSE [threw |-> FALSE, user |-> 0]

\* A mutant of AfterUser: the cookie is emitted before the session exists.
AfterUser_CookieFirst == "cookie"

\* Where the handler goes once user is set: the hook if configured.
AfterUser == IF opts.hasHook THEN "hook" ELSE "session"

\* A mutant of NotFoundRejected: auto-provisioning is never switched off.
NotFoundRejected_Never(found) == FALSE

\* if (!user && !autoSignUp)
NotFoundRejected(found) == found = 0 /\ ~opts.autoSignUp

\* let user = await fetchUserByEmail(email); if (!user && !autoSignUp) throw ...
Lookup(r) ==
  /\ pc[r] = "lookup"
  /\ calls' = [calls EXCEPT ![r].find = @ + 1]
  /\ hist' = [hist EXCEPT
                ![r].unseen = ~\E u \in users : Canon(u.email) = Canon(req[r].verify.email),
                ![r].lookup = IF \E u \in RecordsFor(email[r]) : u.visible
                                THEN "found" ELSE "absent",
                ![r].steps = Append(@, "lookup"),
                ![r].emails = @ \cup {email[r]}]
  /\ LET f == FetchUserByEmail(email[r])
     IN  IF f.threw
           THEN /\ resp' = [resp EXCEPT ![r] = Uncaught("TypeError")]
                /\ pc' = [pc EXCEPT ![r] = "done"]
                /\ UNCHANGED user
           ELSE IF NotFoundRejected(f.user)
             THEN /\ resp' = [resp EXCEPT ![r] = ApiError(401, "USER_NOT_FOUND")]
                  /\ pc' = [pc EXCEPT ![r] = "done"]
                  /\ UNCHANGED user
             ELSE /\ user' = [user EXCEPT ![r] = f.user]
                  /\ pc' = [pc EXCEPT ![r] = IF f.user = 0 THEN "create" ELSE AfterUser]
                  /\ UNCHANGED resp
  /\ UNCHANGED <<lib, opts, env, users, req, email, attempt, session, cookie>>

\* String.prototype.includes, on messages as sequences of words.
Includes(msg, pat) ==
  \E i \in 1 .. Len(msg) :
    i + Len(pat) - 1 <= Len(msg) /\ SubSeq(msg, i, i + Len(pat) - 1) = pat

\* A mutant of IsUniqueViolation: no error is taken for a duplicate.
IsUniqueViolation_Never(err) == FALSE

\* A mutant of IsUniqueViolation: every error is taken for a duplicate.
IsUniqueViolation_Always(err) == TRUE

\* isUniqueViolation(err)
IsUniqueViolation(err) ==
  \/ err.code = "23505"
  \/ Includes(err.message, <<"duplicate", "key", "value">>)
  \/ Includes(err.message, <<"UNIQUE", "constraint", "failed">>)

\* The record of a store call in the request's history: the step taken and
\* the e-mails handed to the store.
Logged(h, step, es) ==
  [h EXCEPT !.steps = Append(@, step), !.emails = @ \cup es]

\* A mutant of CatchLeavesNoUser: the catch block never gives up.
CatchLeavesNoUser_Never(u) == FALSE

\* if (!user) throw FAILED_TO_CREATE_USER, at the end of the catch block
CatchLeavesNoUser(u) == u = 0

\* A mutant of StillNoUser: a missing user goes unnoticed.
StillNoUser_Never(u) == FALSE

\* if (!user) throw USER_CREATION_FAILED, after the try/catch
StillNoUser(u) == u = 0

\* A mutant of LocalPart: the whole e-mail.
LocalPart_WholeEmail(e) == e

\* email.split('@')[0]
RECURSIVE LocalPart(_)
LocalPart(e) ==
  IF e = << >> \/ Head(e) = "@" THEN << >> ELSE <<Head(e)>> \o LocalPart(Tail(e))

\* { email, name: verifyRes.user.name ?? email.split('@')[0], image: null,
\*   emailVerified: true }
CreateArgs(r) ==
  [email |-> email[r],
   name |-> IF req[r].name # NoName THEN req[r].name ELSE LocalPart(email[r]),
   image |-> Null, emailVerified |-> TRUE]

\* if (!user) { try { user = await internalAdapter.createUser?.({...}) }
\*              catch (e) { ... } }  if (!user) throw USER_CREATION_FAILED
CreateUser(r) ==
  /\ pc[r] = "create"
  /\ calls' = [calls EXCEPT ![r].create = @ + 1]
  /\ \E out \in CreateUserOutcomes(email[r]) :
       LET answer == IF out.kind # "error" THEN out.kind
                     ELSE IF out.err \in DuplicateErrors THEN "duplicate" ELSE "error"
       IN
       /\ hist' = [hist EXCEPT ![r] =
                     Logged([@ EXCEPT !.create = answer, !.createArgs = CreateArgs(r)],
                            "create", {CreateArgs(r).email})]
       /\ IF out.kind = "ok"
            THEN /\ users' = users \cup
                      {[id |-> NextUserId, email |-> email[r], visible |-> FALSE]}
                 /\ user' = [user EXCEPT ![r] = NextUserId]
                 /\ pc' = [pc EXCEPT ![r] = AfterUser]
                 /\ UNCHANGED resp
            ELSE IF out.kind = "undefined"
              THEN /\ resp' = [resp EXCEPT ![r] =
                        IF StillNoUser(0) THEN ApiError(500, "USER_CREATION_FAILED")
                        ELSE resp[r]]
                   /\ pc' = [pc EXCEPT ![r] = IF StillNoUser(0) THEN "done" ELSE AfterUser]
                   /\ UNCHANGED <<users, user>>
              ELSE IF IsUniqueViolation(out.err)
                THEN /\ pc' = [pc EXCEPT ![r] = "retry"]
                     /\ UNCHANGED <<users, user, resp>>
                ELSE /\ resp' = [resp EXCEPT ![r] =
                          IF CatchLeavesNoUser(0) THEN ApiError(500, "FAILED_TO_CREATE_USER")
                          ELSE IF StillNoUser(0) THEN ApiError(500, "USER_CREATION_FAILED")
                          ELSE resp[r]]
                     /\ pc' = [pc EXCEPT ![r] =
                          IF CatchLeavesNoUser(0) \/ StillNoUser(0) THEN "done" ELSE AfterUser]
                     /\ UNCHANGED <<users, user>>
  /\ UNCHANGED <<lib, opts, env, req, email, attempt, session, cookie>>

\* A mutant of LoopContinues: the loop is never entered nor left.
LoopContinues_Never(a, u) == FALSE

\* A mutant of LoopContinues: one lookup more.
LoopContinues_OneMore(a, u) == a < MaxAttempts + 1 /\ u = 0

\* The retry loop's condition: attempt < 3 && !user
LoopContinues(a, u) == a < MaxAttempts /\ u = 0

\* One iteration of
\*   for (let attempt = 0; attempt < 3 && !user; attempt++) {
\*     await new Promise((r) => setTimeout(r, 50)); user = await fetchUserByEmail(email); }
\* and, when the loop ends with it, if (!user) throw FAILED_TO_CREATE_USER.
RetryLookup(r) ==
  /\ pc[r] = "retry"
  /\ LoopContinues(attempt[r], user[r])
  /\ calls' = [calls EXCEPT ![r].find = @ + 1]
  /\ LET f == FetchUserByEmail(email[r])
         saw == IF f.threw THEN "threw" ELSE IF f.user = 0 THEN "absent" ELSE "found"
     IN  /\ hist' = [hist EXCEPT ![r] =
                       Logged([@ EXCEPT !.lastRetrySaw = saw], "retry", {email[r]})]
         /\ IF f.threw
              THEN /\ resp' = [resp EXCEPT ![r] = Uncaught("TypeError")]
                   /\ pc' = [pc EXCEPT ![r] = "done"]
                   /\ UNCHANGED <<user, attempt>>
              ELSE /\ user' = [user EXCEPT ![r] = f.user]
                   /\ attempt' = [attempt EXCEPT ![r] = @ + 1]
                   /\ IF LoopContinues(attempt[r] + 1, f.user)
                        THEN UNCHANGED <<pc, resp>>
                        ELSE IF CatchLeavesNoUser(f.user)
                          THEN /\ resp' = [resp EXCEPT ![r] =
                                             ApiError(500, "FAILED_TO_CREATE_USER")]
                               /\ pc' = [pc EXCEPT ![r] = "done"]
                          ELSE IF StillNoUser(f.user)
                            THEN /\ resp' = [resp EXCEPT ![r] =
                                               ApiError(500, "USER_CREATION_FAILED")]
                                 /\ pc' = [pc EXCEPT ![r] = "done"]
                            ELSE /\ pc' = [pc EXCEPT ![r] = AfterUser]
                                 /\ UNCHANGED resp
  /\ UNCHANGED <<lib, opts, env, users, req, email, session, cookie>>

\* user.email: the e-mail of the record the handler holds.
UserEmail(id) == (CHOOSE u \in users : u.id = id).email

\* A mutant of HookRaises: an error of the hook is swallowed.
HookRaises_Swallowed(out) == FALSE

\* await opts.onSessionData(...) rejecting: the error leaves the handler.
HookRaises(out) == out = "raises"

\* if (opts.onSessionData) sessionData = await opts.onSessionData({
\*   verified: verifyRes, userRecord: { id: user.id, email: user.email }, req })
SessionData(r) ==
  /\ pc[r] = "hook"
  /\ calls' = [calls EXCEPT ![r].hook = @ + 1]
  /\ \E out \in HookOutcomes :
       /\ hist' = [hist EXCEPT ![r].hook = out, ![r].steps = Append(@, "hook"),
                               ![r].hookArgs = [verified |-> req[r].verify,
                                                userId |-> user[r],
                                                email |-> UserEmail(user[r])]]
       /\ IF HookRaises(out)
            THEN /\ resp' = [resp EXCEPT ![r] = Uncaught("Error")]
                 /\ pc' = [pc EXCEPT ![r] = "done"]
            ELSE /\ pc' = [pc EXCEPT ![r] = "session"]
                 /\ UNCHANGED resp
  /\ UNCHANGED <<lib, opts, env, users, req, email, user, attempt, session, cookie>>

\* const defaultExpSec = opts.sessionExpiresIn ?? 60 * 60 * 24 * 7;
DefaultExpSec == IF opts.sessionExpiresIn = 0 THEN SevenDays ELSE opts.sessionExpiresIn

\* A mutant of Remember: any truthy rememberMe counts.
Remember_Truthy(r) == req[r].rememberMe \in {"true", "string"}

\* const remember = input.rememberMe === true;
Remember(r) == req[r].rememberMe = "true"

\* A mutant of ExpiresInSec: a day when the user is not to be remembered.
ExpiresInSec_DayUnlessRemembered(r) ==
  IF Remember(r) THEN DefaultExpSec ELSE DefaultExpSec \div 7

\* const expiresInSec = remember ? defaultExpSec : defaultExpSec;
ExpiresInSec(r) == IF Remember(r) THEN DefaultExpSec ELSE DefaultExpSec

\* A mutant of ExpiresAt: the seconds are added to the milliseconds as they are.
ExpiresAt_Seconds(now, r) == now + ExpiresInSec(r)

\* const expiresAt = new Date(now + expiresInSec * 1000);
ExpiresAt(now, r) == now + ExpiresInSec(r) * 1000

\* A mutant of Spread: the first mapping's value where both have one.
Spread_BaseWins(base, extra) ==
  [k \in DOMAIN base \cup DOMAIN extra |->
     IF k \in DOMAIN base THEN base[k] ELSE extra[k]]

\* { ...base, ...extra }: the keys of both, extra's value where both have one.
Spread(base, extra) ==
  [k \in DOMAIN base \cup DOMAIN extra |->
     IF k \in DOMAIN extra THEN extra[k] ELSE base[k]]

\* A mutant of SessionLacksId: the created record is not inspected.
SessionLacksId_Never(out) == FALSE

\* if (!created.id)
SessionLacksId(out) == out = "noId"

\* const ip = req.headers.get('x-forwarded-for') ??
\*   req.headers.get('cf-connecting-ip') ?? null
Ip(h) == IF h.forwardedFor # Null THEN h.forwardedFor ELSE h.connectingIp

\* const ua = req.headers.get('user-agent') ?? null
Ua(h) == h.userAgent

\* String(user.id), for the ids the store hands out.
Digits == <<"1", "2", "3", "4", "5", "6", "7", "8", "9">>
String(id) == IF id = 0 THEN "0" ELSE Digits[id]

\* const now = Date.now(); ... const created = await
\*   internalAdapter.createSession(String(user.id), ctx, !remember,
\*   {expiresAt, ipAddress: ip, userAgent: ua, ...sessionData}, false);
\*   if (!created.id) throw ...
\* Nothing else reads the clock, so its reading is drawn here.
CreateSession(r) ==
  /\ pc[r] = "session"
  /\ calls' = [calls EXCEPT ![r].session = @ + 1]
  /\ \E now \in env.clock :
       session' = [session EXCEPT ![r] =
                     [made |-> TRUE, userId |-> String(user[r]),
                      dontRemember |-> ~Remember(r),
                      expiresIn |-> ExpiresInSec(r), now |-> now,
                      data |-> Spread([expiresAt |-> ExpiresAt(now, r),
                                       ipAddress |-> Ip(req[r].headers),
                                       userAgent |-> Ua(req[r].headers)],
                                      HookMapping(hist[r].hook))]]
  /\ \E out \in CreateSessionOutcomes :
       /\ hist' = [hist EXCEPT ![r].session = out, ![r].steps = Append(@, "session")]
       /\ IF out \in {"raises", "null"}
            THEN /\ pc' = [pc EXCEPT ![r] = "done"]
                 /\ resp' = [resp EXCEPT ![r] =
                      IF out = "raises" THEN Uncaught("Error") ELSE Uncaught("TypeError")]
            ELSE IF SessionLacksId(out)
              THEN /\ pc' = [pc EXCEPT ![r] = "done"]
                   /\ resp' = [resp EXCEPT ![r] =
                                  ApiError(500, "FAILED_TO_CREATE_SESSION")]
              ELSE /\ pc' = [pc EXCEPT ![r] = "cookie"]
                   /\ UNCHANGED resp
  /\ UNCHANGED <<lib, opts, env, users, req, email, user, attempt, cookie>>

\* await setSessionCookie(ctx, { session: created, user }); return ctx.json(...)
\* The helper is given the session and the user only: the cookie's lifetime
\* is the framework's session.expiresIn.
SetCookie(r) ==
  /\ pc[r] = "cookie"
  /\ cookie' = [cookie EXCEPT ![r] = [set |-> TRUE, maxAge |-> env.fwExpiresIn]]
  /\ resp' = [resp EXCEPT ![r] = JsonOk(user[r])]
  /\ pc' = [pc EXCEPT ![r] = "done"]
  /\ hist' = [hist EXCEPT ![r].steps = Append(@, "cookie")]
  /\ UNCHANGED <<lib, opts, env, users, req, email, user, attempt, session, calls>>

Next ==
  \/ \E r \in Reqs : Validate(r)
  \/ \E r \in Reqs : Verify(r)
  \/ \E r \in Reqs : Lookup(r)
  \/ \E r \in Reqs : CreateUser(r)
  \/ \E r \in Reqs : RetryLookup(r)
  \/ \E r \in Reqs : SessionData(r)
  \/ \E r \in Reqs : CreateSession(r)
  \/ \E r \in Reqs : SetCookie(r)
  \/ ExternalSignUp
  \/ Commit

Spec == Init /\ [][Next]_vars

SpecRace == InitRace /\ [][Next]_vars

\* The handler of request r takes its next step: the call it awaits returns
\* or raises, or the retry loop's timer fires.
Advance(r) ==
  \/ Validate(r)
  \/ Verify(r)
  \/ Lookup(r)
  \/ CreateUser(r)
  \/ RetryLookup(r)
  \/ SessionData(r)
  \/ CreateSession(r)
  \/ SetCookie(r)

\* One request whose awaited calls all return or raise; the other instance
\* and the store's commits are under no obligation.
SpecLive == Init /\ [][Next]_vars /\ WF_vars(Advance(1))

\* Two requests verified for one address that may differ in rememberMe.
PairRequests ==
  [hasRequest : {TRUE}, bodyOk : {TRUE}, rememberMe : RememberValues,
   verify : {VerifiedAs(MailA)}, extra : {FALSE}, name : {NoName},
   headers : {DefaultHeaders}]

PairOptions ==
  [autoSignUp : {TRUE}, sessionExpiresIn : {0, TestExpiry}, hasHook : {TRUE}]

PairEnvs ==
  [absentShape : {"wrapper"}, dupError : {PgDuplicate}, fwExpiresIn : {SevenDays},
   clock : {Times}, faults : {FALSE}]

InitPair == InitOf({1, 2}, PairRequests, PairOptions, PairEnvs)

SpecPair == InitPair /\ [][Next]_vars

\* One request whose body, verified name, verified e-mail and headers vary,
\* against collaborators that do not fail. A rememberMe that is no boolean
\* (here a string) passes a custom inputSchema only.
MailTwoAts == <<"a", "@", "b", "@", "x">>
Ann == <<"A", "n", "n">>

InputRequests ==
  [hasRequest : BOOLEAN, bodyOk : BOOLEAN,
   rememberMe : RememberValues \cup {"string"},
   verify : {Rejected, VerifiedAs(MailA), VerifiedAs(MailAUpper), VerifiedAs(MailTwoAts)},
   extra : BOOLEAN, name : {NoName, NoStr, Ann}, headers : AllHeaders]

InputOptions ==
  [autoSignUp : {TRUE}, sessionExpiresIn : {0}, hasHook : BOOLEAN]

InputEnvs ==
  [absentShape : {"wrapper"}, dupError : {PgDuplicate}, fwExpiresIn : {SevenDays},
   clock : {{1000}}, faults : {FALSE}]

InitInput == InitOf({1}, InputRequests, InputOptions, InputEnvs)

SpecInput == InitInput /\ [][Next]_vars

\* Two sign-ins for one address, in either spelling, against a hook and a
\* session store that may fail.
RepeatRequests ==
  [hasRequest : {TRUE}, bodyOk : {TRUE}, rememberMe : {"absent"},
   verify : SameMailVerifyResults, extra : {FALSE}, name : {NoName},
   headers : {DefaultHeaders}]

RepeatOptions ==
  [autoSignUp : {TRUE}, sessionExpiresIn : {0}, hasHook : BOOLEAN]

RepeatEnvs ==
  [absentShape : {"wrapper"}, dupError : {PgDuplicate}, fwExpiresIn : {SevenDays},
   clock : {{1000}}, faults : {TRUE}]

InitRepeat == InitOf({1, 2}, RepeatRequests, RepeatOptions, RepeatEnvs)

SpecRepeat == InitRepeat /\ [][Next]_vars

\* ------------------------------------------------------- the package's helpers
\* The handler's body parsing, the endpoint's registration, the client wrappers
\* and the cookie serialiser, each applied to one input.

\* A JavaScript value: its type and, for an object, its own fields.
Js(type, pairs) == [type |-> type, pairs |-> pairs]
Undefined == Js("undefined", {})
JsNull == Js("null", {})
JsNumber == Js("number", {})
JsString == Js("string", {})
JsArray == Js("array", {})
EmptyMapping == Js("object", {})
Field(k, v) == [k |-> k, v |-> v]
Mapping(pairs) == Js("object", pairs)

\* hintedBody && typeof hintedBody === 'object'
HintedIsObject(v) == v.type \in {"object", "array"}

\* Request bodies.
JsonObjectText == "{\"email\":\"a@x\",\"password\":\"pw\"}"
JsonArrayText == "[1]"
JsonNullText == "null"
JsonNumberText == "42"
JsonStringText == "\"a@x\""
MalformedText == "{\"email\":"
FormText == "email=a%40x&password=pw"
MultipartText == "--b email=a@x avatar=@a.png --b--"
EmptyText == ""

BodyTexts ==
  {JsonObjectText, JsonArrayText, JsonNullText, JsonNumberText, JsonStringText,
   MalformedText, FormText, MultipartText, EmptyText}

Credentials == Mapping({Field("email", "a@x"), Field("password", "pw")})

\* The outcome of a step that can raise.
Failure == [ok |-> FALSE, value |-> Undefined]
Success(v) == [ok |-> TRUE, value |-> v]

\* JSON.parse, on the bodies above.
JsonParse(text) ==
  IF text = JsonObjectText THEN Success(Credentials)
  ELSE IF text = JsonArrayText THEN Success(JsArray)
  ELSE IF text = JsonNullText THEN Success(JsNull)
  ELSE IF text = JsonNumberText THEN Success(JsNumber)
  ELSE IF text = JsonStringText THEN Success(JsString)
  ELSE Failure

\* Object.fromEntries(new URLSearchParams(text).entries()): the pairs of a
\* form body; a text without "=" is one key with an empty value.
FormEntries(text) ==
  IF text = EmptyText THEN EmptyMapping
  ELSE IF text = FormText THEN Credentials
  ELSE Mapping({Field(text, "")})

\* Content-Type headers, as sequences of words.
NoHeader == << >>
JsonType == <<"application/json">>
JsonTypeUpper == <<"Application/JSON", ";", "charset=UTF-8">>
FormType == <<"application/x-www-form-urlencoded">>
FormTypeUpper == <<"Application/X-WWW-Form-Urlencoded">>
MultipartType == <<"multipart/form-data", ";", "boundary=b">>
TextType == <<"text/plain">>

ContentTypes ==
  {NoHeader, JsonType, JsonTypeUpper, FormType, FormTypeUpper, MultipartType,
   TextType}

LowerWord(w) ==
  IF w = "Application/JSON" THEN "application/json"
  ELSE IF w = "charset=UTF-8" THEN "charset=utf-8"
  ELSE IF w = "Application/X-WWW-Form-Urlencoded"
    THEN "application/x-www-form-urlencoded"
  ELSE w

\* A mutant of HeaderLower: the header as it was sent.
HeaderLower_AsSent(h) == h

\* req.headers.get('content-type')?.toLowerCase() ?? ''
HeaderLower(h) == [i \in DOMAIN h |-> LowerWord(h[i])]

\* req.clone().formData(): the fields of a multipart body whose header names
\* its boundary; a file field yields its name. Anything else raises.
FormData(ct, text) ==
  IF Includes(ct, <<"boundary=b">>) /\ text = MultipartText
    THEN Success(Mapping({Field("email", "a@x"), Field("avatar", "a.png")}))
    ELSE Failure

\* The inputs of body parsing: ctx.body ?? ctx.requestBody, the content-type
\* header, the body's text, and whether the body was read before the handler.
ParseInputs ==
  [hinted : {Undefined, JsNull, JsString, JsArray, Credentials},
   contentType : ContentTypes, text : BodyTexts, bodyUsed : BOOLEAN]

\* parseBody(): each attempt reads a clone of the request, which raises once
\* the body has been read; req.json() reads the body itself.
ParseBody(in) ==
  LET contentType == HeaderLower(in.contentType)
      isJson == Includes(contentType, <<"application/json">>)
      isForm == Includes(contentType, <<"application/x-www-form-urlencoded">>)
      isMultipart == Includes(contentType, <<"multipart/form-data">>)
      cloneJson == IF in.bodyUsed THEN Failure ELSE JsonParse(in.text)
      reqJson == IF in.bodyUsed THEN Failure ELSE JsonParse(in.text)
      usedAfterJson == in.bodyUsed \/ isJson
      formData == IF usedAfterJson THEN Failure
                  ELSE FormData(contentType, in.text)
      parsed == IF usedAfterJson \/ in.text = EmptyText THEN Failure
                ELSE JsonParse(in.text)
  IN  IF isJson /\ cloneJson.ok THEN cloneJson.value
      ELSE IF isJson /\ reqJson.ok THEN reqJson.value
      ELSE IF isForm /\ ~usedAfterJson THEN FormEntries(in.text)
      ELSE IF isMultipart /\ formData.ok THEN formData.value
      ELSE IF parsed.ok THEN parsed.value
      ELSE EmptyMapping

\* let body = {}; the hinted body when it is an object, else parseBody().
Body(in) == IF HintedIsObject(in.hinted) THEN in.hinted ELSE ParseBody(in)

\* The handler reads the body of a request.
ReadBody ==
  /\ lib.fn = "parseBody" /\ ~lib.done
  /\ lib' = [lib EXCEPT !.done = TRUE, 
                        !.out = [raised |-> FALSE, body |-> Body(lib.arg)]]
  /\ UNCHANGED <<opts, env, users, req, pc, email, user, attempt, session,
                 cookie, resp, calls, hist>>

\* A path or URL is a sequence of words: "/" and the segments between slashes.
SignInPath == <<"/", "sign-in", "/", "credentials">>
ApiLoginPath == <<"/", "api", "/", "credentials", "/", "login">>

\* An option that is not given.
NoPath == <<"undefined">>

\* The path option of the server plugin.
ServerPathOptions == {NoPath, SignInPath, ApiLoginPath}

\* const path = '/sign-in/credentials'; createAuthEndpoint(path, ...)
EndpointPath(pathOption) == SignInPath

\* credentialsPlugin(opts) registers its endpoint.
RegisterEndpoint ==
  /\ lib.fn = "credentialsPlugin" /\ ~lib.done
  /\ lib' = [lib EXCEPT !.done = TRUE, !.out = [path |-> EndpointPath(lib.arg.path)]]
  /\ UNCHANGED <<opts, env, users, req, pc, email, user, attempt, session,
                 cookie, resp, calls, hist>>

\* The client's options: path and basePath.
DefaultBase == <<"/", "api", "/", "auth">>
ClientPaths ==
  {NoPath, NoStr, SignInPath, ApiLoginPath,
   <<"login">>, <<"/", "login">>,
   <<"/", "api", "/", "/", "x">>,
   <<"/", "api">>,
   <<"https:", "/", "/", "auth.example.com", "/", "login">>,
   <<"HTTP:", "/", "/", "auth.example.com", "/", "login">>,
   <<"/", "/", "auth.example.com", "/", "login">>}
ClientBases ==
  {NoPath, DefaultBase, NoStr, <<"/", "auth", "/">>, <<"/", "auth", "/", "/">>,
   <<"/">>, <<"https:", "/", "/", "auth.example.com", "/", "api">>}
ClientOptions == [path : ClientPaths, basePath : ClientBases]

StartsWith(s, pre) == Len(pre) <= Len(s) /\ SubSeq(s, 1, Len(pre)) = pre

\* /^(https?:)?\/\//i.test(p)
IsFullUrl(p) ==
  \/ StartsWith(p, <<"/", "/">>)
  \/ \E scheme \in {"http:", "https:", "HTTP:", "HTTPS:"} :
       StartsWith(p, <<scheme, "/", "/">>)

\* s.replace(/\/+?/g, '/'): the lazy pattern matches one slash at a time, so
\* every slash is replaced by a slash.
ReplaceEachSlash(s) == [i \in DOMAIN s |-> IF s[i] = "/" THEN "/" ELSE s[i]]

\* A mutant of StripTrailingSlashes: the base as it was given.
StripTrailingSlashes_Kept(s) == s

\* s.replace(/\/+?$/g, ''): the leftmost match that reaches the end of the
\* string is the whole run of trailing slashes.
RECURSIVE StripTrailingSlashes(_)
StripTrailingSlashes(s) ==
  IF s # << >> /\ s[Len(s)] = "/"
    THEN StripTrailingSlashes(SubSeq(s, 1, Len(s) - 1))
    ELSE s

\* s.replace(/^\/+?/g, ''): the lazy pattern matches one leading slash.
StripLeadingSlash(s) == IF s # << >> /\ Head(s) = "/" THEN Tail(s) ELSE s

\* The client's default path: p ?? '/credentials/sign-in'.
ClientDefaultPath == <<"/", "credentials", "/", "sign-in">>

\* normalizePath(opts.path)
NormalizePath(o) ==
  LET base == IF o.basePath = NoPath THEN DefaultBase ELSE o.basePath
      p == o.path
      provided == IF p = NoPath THEN ClientDefaultPath ELSE p
      joined == StripTrailingSlashes(base) \o <<"/">> \o StripLeadingSlash(provided)
  IN  IF p # NoPath /\ p # NoStr /\ IsFullUrl(p) THEN p
      ELSE IF StartsWith(provided, <<"/", "api", "/">>)
        THEN ReplaceEachSlash(provided)
      ELSE ReplaceEachSlash(joined)

\* extendAuthClientWithCredentials(client, opts) resolves the URL that
\* signIn.credentials posts to.
ResolveUrl ==
  /\ lib.fn = "extendAuthClientWithCredentials" /\ ~lib.done
  /\ lib' = [lib EXCEPT !.done = TRUE, !.out = [url |-> NormalizePath(lib.arg)]]
  /\ UNCHANGED <<opts, env, users, req, pc, email, user, attempt, session,
                 cookie, resp, calls, hist>>

\* A response to the client's POST: its status and its body.
\* body.json: whether res.json() resolves; body.value: what it resolves to.
NotJsonBody == [json |-> FALSE, value |-> Undefined]
JsonBody(v) == [json |-> TRUE, value |-> v]
OkBody == JsonBody(Mapping({Field("ok", "true"), Field("userId", "u1")}))
ErrorFieldBody == JsonBody(Mapping({Field("error", "no")}))
\* The body of an APIError raised by the plugin's handler:
\* new APIError('UNAUTHORIZED', { message: 'INVALID_CREDENTIALS' }).
ApiErrorBody == JsonBody(Mapping({Field("message", "INVALID_CREDENTIALS")}))
NullBody == JsonBody(JsNull)
EmptyObjectBody == JsonBody(EmptyMapping)

Statuses == {200, 201, 204, 299, 302, 400, 401, 404, 500}
ResponseBodies ==
  {NotJsonBody, OkBody, ErrorFieldBody, ApiErrorBody, NullBody, EmptyObjectBody}
Responses == [status : Statuses, body : ResponseBodies]

\* Response.ok
ResOk(res) == res.status >= 200 /\ res.status <= 299

\* j?.error: the value of a field, Undefined when there is none.
HasField(v, k) == \E f \in v.pairs : f.k = k
FieldOf(v, k) == (CHOOSE f \in v.pairs : f.k = k).v

InvalidCredentials == "Invalid credentials"

\* msg = 'Invalid credentials'; try { msg = (await res.json())?.error ?? msg }
\* catch {}
ErrorMessage(res) ==
  IF res.body.json /\ HasField(res.body.value, "error")
    THEN FieldOf(res.body.value, "error")
    ELSE InvalidCredentials

Thrown(msg) == [threw |-> TRUE, message |-> msg, value |-> Undefined]
Resolved(v) == [threw |-> FALSE, message |-> "", value |-> v]

\* if (!res.ok) throw new Error(msg); return res.json().catch(() => ({}))
WrapperResult(res) ==
  IF ~ResOk(res) THEN Thrown(ErrorMessage(res))
  ELSE IF res.body.json THEN Resolved(res.body.value)
  ELSE Resolved(EmptyMapping)

\* client.signIn.credentials(body), once the fetch has answered.
SignInCredentials ==
  /\ lib.fn = "signIn.credentials" /\ ~lib.done
  /\ lib' = [lib EXCEPT !.done = TRUE, !.out = WrapperResult(lib.arg)]
  /\ UNCHANGED <<opts, env, users, req, pc, email, user, attempt, session,
                 cookie, resp, calls, hist>>

\* signInWithCredentials(endpoint, body), once the fetch has answered.
SignInWithCredentials ==
  /\ lib.fn = "signInWithCredentials" /\ ~lib.done
  /\ lib' = [lib EXCEPT !.done = TRUE, !.out = WrapperResult(lib.arg)]
  /\ UNCHANGED <<opts, env, users, req, pc, email, user, attempt, session,
                 cookie, resp, calls, hist>>

\* Cookie attributes. A field that is not given holds NotGiven; maxAge is a
\* number of half seconds, so that 7201 is 3600.5 seconds.
NotGiven == "undefined"
HalfSeconds(n) == [given |-> TRUE, halves |-> n]
NoMaxAge == [given |-> FALSE, halves |-> 0]
NewYear2030 == "Tue, 01 Jan 2030 00:00:00 GMT"
AuthPath == <<"/", "auth">>
RootPath == <<"/">>

CookieValues == {<<"a", "b", "c">>, <<"a", " ", "b">>, <<"a", ";", "b">>}

CookieAttrs ==
  [httpOnly : {NotGiven, "true", "false"},
   secure : {NotGiven, "true", "false"},
   sameSite : {NotGiven, "lax", "strict", "none"},
   path : {NoPath, NoStr, AuthPath},
   domain : {NotGiven, "", "example.com"},
   maxAge : {NoMaxAge} \cup {HalfSeconds(n) : n \in {0, 7200, 7201}},
   expires : {NotGiven, NewYear2030}]

CookieInputs == [name : {"sid"}, value : CookieValues, attrs : CookieAttrs]

\* encodeURIComponent, on the characters the model uses.
EncodeChar(c) == IF c = " " THEN "%20" ELSE IF c = ";" THEN "%3B" ELSE c
EncodeURIComponent(s) == [i \in DOMAIN s |-> EncodeChar(s[i])]

\* Math.floor of a number of half seconds, in seconds.
Floor(m) == m.halves \div 2

\* A part of the cookie string: "key=value", or "key" alone for a flag.
Pair(k, v) == [key |-> k, flag |-> FALSE, value |-> v]
Flag(k) == [key |-> k, flag |-> TRUE, value |-> ""]

\* A mutant of MaxAgeGiven: a maxAge of 0 counts as not given.
MaxAgeGiven_Truthy(attrs) == attrs.maxAge.given /\ attrs.maxAge.halves # 0

\* attrs.maxAge != null
MaxAgeGiven(attrs) == attrs.maxAge.given

\* The truthiness of a string or boolean attribute.
Truthy(v) == v \notin {NotGiven, "", "false"}

SameSiteToken(v) ==
  IF v = "lax" THEN "Lax" ELSE IF v = "strict" THEN "Strict" ELSE "None"

\* serializeCookie(name, value, attrs): the parts that join('; ') joins.
SerializeCookie(in) ==
  LET attrs == in.attrs
  IN  <<Pair(in.name, EncodeURIComponent(in.value))>>
      \o (IF MaxAgeGiven(attrs) THEN <<Pair("Max-Age", Floor(attrs.maxAge))>> ELSE << >>)
      \o (IF Truthy(attrs.expires) THEN <<Pair("Expires", attrs.expires)>> ELSE << >>)
      \o (IF Truthy(attrs.domain) THEN <<Pair("Domain", attrs.domain)>> ELSE << >>)
      \o <<Pair("Path", IF attrs.path = NoPath THEN RootPath ELSE attrs.path)>>
      \o (IF Truthy(attrs.secure) THEN <<Flag("Secure")>> ELSE << >>)
      \o (IF Truthy(attrs.httpOnly) THEN <<Flag("HttpOnly")>> ELSE << >>)
      \o (IF Truthy(attrs.sameSite)
            THEN <<Pair("SameSite", SameSiteToken(attrs.sameSite))>> ELSE << >>)

\* serializeCookie is called.
Serialize ==
  /\ lib.fn = "serializeCookie" /\ ~lib.done
  /\ lib' = [lib EXCEPT !.done = TRUE, !.out = [parts |-> SerializeCookie(lib.arg)]]
  /\ UNCHANGED <<opts, env, users, req, pc, email, user, attempt, session,
                 cookie, resp, calls, hist>>

\* A call of a helper that has not run yet.
Call(fn, arg) == [fn |-> fn, arg |-> arg, done |-> FALSE, out |-> [pending |-> TRUE]]

LibCalls ==
  {Call("parseBody", in) : in \in ParseInputs}
  \cup {Call("credentialsPlugin", [path |-> p]) : p \in ServerPathOptions}
  \cup {Call("extendAuthClientWithCredentials", o) : o \in ClientOptions}
  \cup {Call("signIn.credentials", res) : res \in Responses}
  \cup {Call("signInWithCredentials", res) : res \in Responses}
  \cup {Call("serializeCookie", in) : in \in CookieInputs}

\* One call of one helper, no request in flight.
InitLib ==
  /\ lib \in LibCalls
  /\ opts \in RaceOptions
  /\ env \in PairEnvs
  /\ users = {}
  /\ req = << >>
  /\ pc = << >>
  /\ email = << >>
  /\ user = << >>
  /\ attempt = << >>
  /\ session = << >>
  /\ cookie = << >>
  /\ resp = << >>
  /\ calls = << >>
  /\ hist = << >>

NextLib ==
  \/ ReadBody
  \/ RegisterEndpoint
  \/ ResolveUrl
  \/ SignInCredentials
  \/ SignInWithCredentials
  \/ Serialize

SpecLib == InitLib /\ [][NextLib]_vars

\* ---------------------------------------------------------------- properties

Done(r) == pc[r] = "done"
Ok200(r) == resp[r].kind = "json" /\ resp[r].status = 200
FailedWith(r, status) == resp[r].kind = "APIError" /\ resp[r].status = status

\* The verified e-mail of request r, as the address it denotes.
Address(r) == Canon(req[r].verify.email)

\* The request got past validation and a Verified answer with an address.
VerifiedWithAddress(r) ==
  /\ req[r].hasRequest
  /\ req[r].bodyOk
  /\ req[r].verify.ok
  /\ req[r].verify.hasEmail
  /\ Address(r) # NoStr

\* No collaborator failed for a reason of its own during the request.
NoFault(r) ==
  /\ hist[r].create \in {"none", "ok", "duplicate"}
  /\ hist[r].hook # "raises"
  /\ hist[r].session \in {"none", "ok"}

\* C1: a request with a valid body, a Verified answer for a previously unseen
\* e-mail and auto-provisioning enabled (no collaborator failing, nobody else
\* signing the same address up meanwhile) ends with 200 and the user's id,
\* after exactly one user-store create and exactly one session-store create.
C1_FirstSignInSucceeds ==
  \A r \in Reqs :
    ( /\ Done(r)
      /\ VerifiedWithAddress(r)
      /\ opts.autoSignUp
      /\ hist[r].unseen
      /\ NoFault(r)
      /\ hist[r].create # "duplicate" )
    => /\ Ok200(r)
       /\ resp[r].userId # 0
       /\ calls[r].create = 1
       /\ calls[r].session = 1

\* What remains of C1 when the store reports an absent user as { user: null }.
C1_HoldsForWrapperShape == env.absentShape = "wrapper" => C1_FirstSignInSucceeds

\* The loser of a race recovered: it answered 200 with the id of the record
\* stored for its address, or that record was still invisible at its third
\* retry lookup.
Recovered(r) ==
  \/ /\ Ok200(r)
     /\ \E u \in users : Canon(u.email) = Address(r) /\ u.id = resp[r].userId
  \/ /\ attempt[r] = 3
     /\ hist[r].lastRetrySaw = "absent"

\* The uniqueness violations the handler is documented to recognise: code
\* '23505', or a message containing 'duplicate key value' or 'UNIQUE
\* constraint failed'.
Recognised(err) ==
  \/ err.code = "23505"
  \/ \E i \in DOMAIN err.message :
       /\ i + 2 \in DOMAIN err.message
       /\ <<err.message[i], err.message[i + 1], err.message[i + 2]>> \in
            {<<"duplicate", "key", "value">>, <<"UNIQUE", "constraint", "failed">>}

\* Request r lost the race for a new address to another request: both found
\* no user, both called user creation, the other's created the record and
\* r's was refused with a uniqueness violation.
LostRace(r) ==
  /\ hist[r].create = "duplicate"
  /\ \E w \in Reqs \ {r} : hist[w].create = "ok" /\ Address(w) = Address(r)

C3_OneUserPerAddress ==
  /\ \A u1, u2 \in users : Canon(u1.email) = Canon(u2.email) => u1.id = u2.id
  /\ \A r1, r2 \in Reqs :
       (Ok200(r1) /\ Ok200(r2) /\ Address(r1) = Address(r2))
       => resp[r1].userId = resp[r2].userId

\* Two requests for two spellings of one address both answered 200, one
\* having created the user and the other having lost the race.
C3_Witness ==
  \E r1, r2 \in Reqs :
    /\ Ok200(r1) /\ Ok200(r2)
    /\ req[r1].verify.email # req[r2].verify.email
    /\ hist[r1].create = "ok"
    /\ hist[r2].create = "duplicate"

\* C4: a request whose body fails the schema ends with 400 INVALID_INPUT and
\* no collaborator is called: verifier, user store, session store, hook.
C4_InvalidInputIs400 ==
  \A r \in Reqs :
    (req[r].hasRequest /\ ~req[r].bodyOk /\ pc[r] # "recv")
    => /\ Done(r)
       /\ FailedWith(r, 400)
       /\ resp[r].message = "INVALID_INPUT"
       /\ calls[r] = NoCalls
       /\ ~session[r].made
       /\ ~cookie[r].set

C4_Witness == \E r \in Reqs : req[r].hasRequest /\ ~req[r].bodyOk /\ Done(r)

\* C5: a request whose verifier answers Rejected ends with 401, with no
\* user-store lookup or write, no session-store write, no hook call and no
\* cookie.
C5_RejectedIs401 ==
  \A r \in Reqs :
    ( /\ req[r].hasRequest /\ req[r].bodyOk /\ ~req[r].verify.ok
      /\ pc[r] \notin {"recv", "verify"} )
    => /\ Done(r)
       /\ FailedWith(r, 401)
       /\ calls[r].find = 0
       /\ calls[r].create = 0
       /\ calls[r].session = 0
       /\ calls[r].hook = 0
       /\ ~session[r].made
       /\ ~cookie[r].set

C5_Witness ==
  \E r \in Reqs :
    req[r].hasRequest /\ req[r].bodyOk /\ ~req[r].verify.ok /\ Done(r)

\* C6: a Verified answer whose user.email is missing or the empty string
\* ends with 400 and no user-store or session-store call.
C6_MissingEmailIs400 ==
  \A r \in Reqs :
    ( /\ req[r].hasRequest
      /\ req[r].bodyOk
      /\ req[r].verify.ok
      /\ (~req[r].verify.hasEmail \/ Len(req[r].verify.email) = 0)
      /\ pc[r] \notin {"recv", "verify"} )
    => /\ Done(r)
       /\ FailedWith(r, 400)
       /\ calls[r].find = 0
       /\ calls[r].create = 0
       /\ calls[r].session = 0
       /\ ~session[r].made

\* The empty-string case has been answered.
C6_Witness ==
  \E r \in Reqs :
    /\ req[r].hasRequest /\ req[r].bodyOk /\ req[r].verify.ok
    /\ req[r].verify.hasEmail /\ Len(req[r].verify.email) = 0
    /\ Done(r)

\* C7: a Verified answer whose user.email is empty after trimming ends with
\* 400, and no user is looked up or created with an empty e-mail.
C7_BlankEmailIs400 ==
  \A r \in Reqs :
    ( /\ req[r].hasRequest
      /\ req[r].bodyOk
      /\ req[r].verify.ok
      /\ req[r].verify.hasEmail
      /\ Address(r) = NoStr
      /\ pc[r] \notin {"recv", "verify"} )
    => /\ Done(r)
       /\ FailedWith(r, 400)
       /\ calls[r].find = 0
       /\ calls[r].create = 0

\* C8: with auto-provisioning disabled, a request whose lookup finds no user
\* ends with 401 USER_NOT_FOUND, no user-store create and no session.
C8_NotFoundIs401 ==
  \A r \in Reqs :
    (~opts.autoSignUp /\ hist[r].lookup = "absent")
    => /\ Done(r)
       /\ FailedWith(r, 401)
       /\ resp[r].message = "USER_NOT_FOUND"
       /\ calls[r].create = 0
       /\ ~session[r].made

\* What remains of C8 when the store reports an absent user as { user: null }.
C8_HoldsForWrapperShape == env.absentShape = "wrapper" => C8_NotFoundIs401

\* C9: when the session store's create yields a record without an id, the
\* request ends with 500 FAILED_TO_CREATE_SESSION and no cookie is set.
C9_SessionWithoutIdIs500 ==
  \A r \in Reqs :
    hist[r].session = "noId"
    => /\ Done(r)
       /\ FailedWith(r, 500)
       /\ resp[r].message = "FAILED_TO_CREATE_SESSION"
       /\ ~cookie[r].set

C9_Witness == \E r \in Reqs : hist[r].session = "noId" /\ calls[r].session = 1

\* C10: every 200 response carries a session cookie whose Max-Age is
\* options.sessionExpiresIn when set and 604800 otherwise.
C10_CookieMaxAge ==
  \A r \in Reqs :
    Ok200(r)
    => /\ cookie[r].set
       /\ cookie[r].maxAge =
            (IF opts.sessionExpiresIn # 0 THEN opts.sessionExpiresIn ELSE 604800)

\* The number of retry lookups request r has made.
Retries(r) == Len(SelectSeq(hist[r].steps, LAMBDA x : x = "retry"))

\* r's user creation failed with a uniqueness violation the handler detects.
Detected(r) == hist[r].create = "duplicate" /\ Recognised(env.dupError)

\* C11: after user creation failed with a detected uniqueness violation, the
\* request makes at most 3 further lookups, makes none after a lookup has
\* returned a record, and never calls user creation a second time.
C11_BoundedRetry ==
  \A r \in Reqs :
    Detected(r)
    => /\ Retries(r) <= 3
       /\ calls[r].find = 1 + Retries(r)
       /\ calls[r].create = 1
       /\ hist[r].lastRetrySaw = "found" => pc[r] \notin {"lookup", "create", "retry"}

\* The third retry lookup was needed, and returned the record.
C11_Witness ==
  \E r \in Reqs :
    Detected(r) /\ Done(r) /\ Retries(r) = 3 /\ hist[r].lastRetrySaw = "found"

\* C12: when user creation failed with a uniqueness violation and all 3 retry
\* lookups found no user, the request ends with 500 FAILED_TO_CREATE_USER,
\* no session and no cookie.
C12_ExhaustionIs500 ==
  \A r \in Reqs :
    (hist[r].create = "duplicate" /\ Retries(r) = 3 /\ hist[r].lastRetrySaw = "absent")
    => /\ Done(r)
       /\ FailedWith(r, 500)
       /\ resp[r].message = "FAILED_TO_CREATE_USER"
       /\ calls[r].session = 0
       /\ ~session[r].made
       /\ ~cookie[r].set

C12_Witness ==
  \E r \in Reqs :
    /\ hist[r].create = "duplicate" /\ Retries(r) = 3
    /\ hist[r].lastRetrySaw = "absent" /\ Done(r)

\* C13: when user creation raises an error that is not recognised as a
\* uniqueness violation, the request ends with 500 FAILED_TO_CREATE_USER
\* without any retry lookup and without a session.
C13_UnrecognisedErrorIs500 ==
  \A r \in Reqs :
    ( \/ hist[r].create = "error"
      \/ hist[r].create = "duplicate" /\ ~Recognised(env.dupError) )
    => /\ Done(r)
       /\ FailedWith(r, 500)
       /\ resp[r].message = "FAILED_TO_CREATE_USER"
       /\ Retries(r) = 0
       /\ calls[r].find = 1
       /\ calls[r].session = 0
       /\ ~session[r].made

\* Both kinds of unrecognised error: a store failure, and a uniqueness
\* violation in a shape the handler does not know.
C13_Witness ==
  \E r \in Reqs :
    /\ Done(r)
    /\ hist[r].create = "duplicate" /\ ~Recognised(env.dupError)

\* C14: within one request every user-store lookup (the retry lookups
\* included) and the user-store create are given the same e-mail, the
\* verifier's e-mail trimmed and lower-cased; so requests verified for
\* spellings of one address resolve to the same user record.
C14_SameNormalisedEmail ==
  /\ \A r \in Reqs : \A e \in hist[r].emails : e = Canon(req[r].verify.email)
  /\ \A r1, r2 \in Reqs :
       (Address(r1) = Address(r2) /\ user[r1] # 0 /\ user[r2] # 0)
       => user[r1] = user[r2]

\* Two requests verified for different spellings of one address hold the same
\* record, one after a lookup and a create, the other after a lookup, a
\* refused create and a retry lookup.
C14_Witness ==
  \E r1, r2 \in Reqs :
    /\ req[r1].verify.email = MailAUpper /\ req[r2].verify.email = MailA
    /\ hist[r1].create = "ok" /\ hist[r2].create = "duplicate"
    /\ Retries(r2) > 0
    /\ user[r1] # 0 /\ user[r1] = user[r2]
    /\ hist[r1].emails = {MailA} /\ hist[r2].emails = {MailA}

\* The failure outcomes the handler classifies, by status and message.
Classified(o) ==
  /\ o.kind = "APIError"
  /\ \/ o.status = 400 /\ o.message \in {"INVALID_INPUT", "Verifier must return user.email"}
     \/ o.status = 401 /\ o.message \in {"INVALID_CREDENTIALS", "USER_NOT_FOUND"}
     \/ o.status = 500 /\ o.message \in {"FAILED_TO_CREATE_USER", "USER_CREATION_FAILED",
                                          "FAILED_TO_CREATE_SESSION", "INTERNAL_SERVER_ERROR"}

\* C15: every request ends in exactly one outcome, a 200 response or a
\* classified failure (400, 401 or 500); no failure of the user store, the
\* session store or the hook leaves the handler unclassified.
C15_EveryFailureClassified ==
  \A r \in Reqs :
    /\ Done(r) <=> resp[r] # Pending
    /\ Done(r) => (Ok200(r) \/ Classified(resp[r]))

\* What remains of C15 when no lookup result is null, the hook does not raise
\* and the session store's create returns a record.
C15_HoldsWhenNothingRaises ==
  \A r \in Reqs :
    ( /\ env.absentShape = "wrapper"
      /\ hist[r].hook # "raises"
      /\ hist[r].session \notin {"raises", "null"} )
    => /\ Done(r) <=> resp[r] # Pending
       /\ Done(r) => (Ok200(r) \/ Classified(resp[r]))

\* The step at which request r stands or ended.
LastStep(r) == IF hist[r].steps = << >> THEN "none" ELSE hist[r].steps[Len(hist[r].steps)]

\* The request cannot get as far as session creation: its body, its
\* verifier's answer or its user reconciliation fails.
FailsBeforeSession(r) ==
  \/ ~req[r].hasRequest
  \/ ~req[r].bodyOk
  \/ ~req[r].verify.ok
  \/ ~req[r].verify.hasEmail
  \/ req[r].verify.email = NoStr
  \/ hist[r].lookup = "absent" /\ ~opts.autoSignUp
  \/ hist[r].create \in {"undefined", "error"}
  \/ Done(r) /\ ~Ok200(r) /\ LastStep(r) \in {"receive", "validate", "verify", "lookup", "create", "retry"}

\* C16: the session store's create is called at most once per request,
\* exactly once in every request answered 200, and never in a request that
\* fails at validation, verification or user reconciliation.
C16_SessionCreatedOnce ==
  \A r \in Reqs :
    /\ calls[r].session <= 1
    /\ Ok200(r) => (calls[r].session = 1 /\ session[r].made)
    /\ FailsBeforeSession(r) => (calls[r].session = 0 /\ ~session[r].made)

\* A request answered 200 after creating its user and one session.
C16_Witness ==
  \E r \in Reqs : Ok200(r) /\ calls[r].session = 1 /\ hist[r].create = "ok"

\* C17: the user store's create is called at most once per request, and only
\* when the initial lookup found no user and auto-provisioning is enabled;
\* when the initial lookup finds a user, create is not called and the
\* response's userId is that record's id.
C17_UserCreatedAtMostOnce ==
  \A r \in Reqs :
    /\ calls[r].create <= 1
    /\ calls[r].create = 1 => (hist[r].lookup = "absent" /\ opts.autoSignUp)
    /\ hist[r].lookup = "found"
       => /\ calls[r].create = 0
          /\ Ok200(r) => \E u \in users :
                           /\ u.visible /\ u.email = Canon(req[r].verify.email)
                           /\ u.id = resp[r].userId

\* An existing user signed in: found at the initial lookup, no create, 200.
C17_Witness ==
  \E r \in Reqs :
    hist[r].lookup = "found" /\ Ok200(r) /\ calls[r].create = 0 /\ resp[r].userId # 0

\* The orders in which a request can take its steps.
IsPrefix(p, q) == Len(p) <= Len(q) /\ SubSeq(q, 1, Len(p)) = p

CreationRuns ==
  {<< >>} \cup {<<"create">> \o [i \in 1 .. n |-> "retry"] : n \in 0 .. 3}

CompleteRuns ==
  {<<"validate", "verify", "lookup">> \o c \o h \o <<"session", "cookie">> :
     c \in CreationRuns, h \in {<< >>, <<"hook">>}}

\* C18: within one request the steps are taken in the order validation,
\* verifier, lookup, optional creation with its retry lookups, optional hook,
\* session creation, cookie and 200; a step is taken only after its
\* predecessor succeeded, none is repeated or revisited, and a request
\* answered 200 took them all.
C18_StepsInOrder ==
  \A r \in Reqs :
    /\ \/ hist[r].steps = <<"receive">>
       \/ \E run \in CompleteRuns : IsPrefix(hist[r].steps, run)
    /\ Ok200(r) <=> (hist[r].steps \in CompleteRuns)
    /\ (Done(r) /\ ~Ok200(r)) => ~cookie[r].set
    /\ calls[r].verify <= 1 /\ calls[r].hook <= 1 /\ calls[r].session <= 1

\* A request that took every step, the optional ones included.
C18_Witness ==
  \E r \in Reqs :
    /\ Ok200(r)
    /\ hist[r].steps = <<"validate", "verify", "lookup", "create", "retry", "retry",
                         "hook", "session", "cookie">>

\* The request wrote no user and no session.
NothingWritten(r) == calls[r].create = 0 /\ calls[r].session = 0

\* C19 as stated: a 400 or 401 exit is taken only from Received, Normalized or
\* Verified (validation, verifier, initial lookup), before any user or session
\* has been written, and a 500 exit only from the reconciliation or
\* session-creation stages.
C19_ExitStages ==
  \A r \in Reqs :
    /\ (FailedWith(r, 400) \/ FailedWith(r, 401))
       => (LastStep(r) \in {"validate", "verify", "lookup"} /\ NothingWritten(r))
    /\ FailedWith(r, 500) => LastStep(r) \in {"create", "retry", "session"}

\* C19 amended: the same, with one more 500 exit, taken from Received when
\* the call carries no request object.
C19_ExitStagesWithMissingRequest ==
  \A r \in Reqs :
    /\ (FailedWith(r, 400) \/ FailedWith(r, 401))
       => (LastStep(r) \in {"validate", "verify", "lookup"} /\ NothingWritten(r))
    /\ FailedWith(r, 500)
       => \/ LastStep(r) \in {"create", "retry", "session"}
          \/ /\ LastStep(r) = "receive"
             /\ ~req[r].hasRequest
             /\ resp[r].message = "INTERNAL_SERVER_ERROR"
             /\ NothingWritten(r)

\* The 500 exit of a call without a request object has been taken.
C19_Witness ==
  \E r \in Reqs :
    /\ FailedWith(r, 500) /\ LastStep(r) = "receive" /\ ~req[r].hasRequest

\* C20: the expiresAt the handler passes to the session store is the
\* request's current time plus options.sessionExpiresIn seconds when set and
\* 604800 seconds otherwise.
C20_ExpiresAt ==
  \A r \in Reqs :
    session[r].made
    => session[r].data.expiresAt =
         session[r].now
           + (IF opts.sessionExpiresIn # 0 THEN opts.sessionExpiresIn ELSE 604800) * 1000

\* What remains of C20 when the hook's mapping has no expiresAt key.
C20_HoldsWithoutHookKey ==
  \A r \in Reqs :
    (session[r].made /\ hist[r].hook # "override")
    => session[r].data.expiresAt =
         session[r].now
           + (IF opts.sessionExpiresIn # 0 THEN opts.sessionExpiresIn ELSE 604800) * 1000

\* The session lifetime the handler asked the session store to apply.
Lifetime(r) == session[r].data.expiresAt - session[r].now

\* C21: for two requests that differ only in rememberMe, the session lifetime
\* the handler computes and asks the session store to apply is the same.
C21_LifetimeIgnoresRememberMe ==
  \A r1, r2 \in Reqs :
    ( /\ session[r1].made /\ session[r2].made
      /\ [req[r1] EXCEPT !.rememberMe = "absent"] = [req[r2] EXCEPT !.rememberMe = "absent"] )
    => /\ session[r1].expiresIn = session[r2].expiresIn
       /\ Lifetime(r1) = Lifetime(r2)

\* Sessions were asked for by a request with rememberMe true and one without.
C21_Witness ==
  \E r1, r2 \in Reqs :
    /\ session[r1].made /\ session[r2].made
    /\ req[r1].rememberMe = "true" /\ req[r2].rememberMe = "false"
    /\ [req[r1] EXCEPT !.rememberMe = "absent"] = [req[r2] EXCEPT !.rememberMe = "absent"]

\* The keys of the session data the handler sets itself.
HandlerKeys == {"expiresAt", "ipAddress", "userAgent"}

\* Step a is in the log of r, before step b.
StepBefore(r, a, b) ==
  \E i, j \in DOMAIN hist[r].steps :
    i < j /\ hist[r].steps[i] = a /\ hist[r].steps[j] = b

C23_HookFailureIsServerError ==
  \A r \in Reqs :
    hist[r].hook = "raises"
    => /\ Done(r)
       /\ ~Ok200(r)
       /\ ~FailedWith(r, 400) /\ ~FailedWith(r, 401)
       /\ resp[r].kind = "Error"
       /\ calls[r].session = 0
       /\ ~session[r].made
       /\ ~cookie[r].set

C23_Witness == \E r \in Reqs : hist[r].hook = "raises" /\ calls[r].hook = 1

\* C24: when the session store's create raises or returns no record, the
\* request ends with 500 FAILED_TO_CREATE_SESSION, as for a record without
\* an id.
C24_SessionStoreFailureIs500 ==
  \A r \in Reqs :
    hist[r].session \in {"raises", "null"}
    => /\ Done(r)
       /\ FailedWith(r, 500)
       /\ resp[r].message = "FAILED_TO_CREATE_SESSION"

\* What C24 has right: no cookie and no 200 after such a failure.
C24_NoCookieAfterFailure ==
  \A r \in Reqs :
    hist[r].session \in {"raises", "null"}
    => Done(r) /\ ~Ok200(r) /\ ~cookie[r].set

\* ---------------------------------------------------------------- helpers
ParseCall == lib.fn = "parseBody" /\ lib.done
RegisterCall == lib.fn = "credentialsPlugin" /\ lib.done
ResolveCall == lib.fn = "extendAuthClientWithCredentials" /\ lib.done
WrapperCall == lib.fn \in {"signIn.credentials", "signInWithCredentials"} /\ lib.done
SerializeCall == lib.fn = "serializeCookie" /\ lib.done

C26_EndpointAtPathOption ==
  RegisterCall =>
    lib.out.path = IF lib.arg.path = NoPath THEN SignInPath ELSE lib.arg.path

\* C26, what the code does: the endpoint is at /sign-in/credentials whatever
\* the path option.
C26_EndpointAtFixedPath == RegisterCall => lib.out.path = SignInPath

\* The message a response body reports: its error field, else its message
\* field.
Reports(res) ==
  res.body.json /\ (HasField(res.body.value, "error") \/ HasField(res.body.value, "message"))
Reported(res) ==
  IF HasField(res.body.value, "error") THEN FieldOf(res.body.value, "error")
  ELSE FieldOf(res.body.value, "message")

WrapperAsClaimed ==
  LET res == lib.arg
  IN  IF ResOk(res)
        THEN /\ ~lib.out.threw
             /\ res.body.json => lib.out.value = res.body.value
        ELSE /\ lib.out.threw
             /\ lib.out.message = IF Reports(res) THEN Reported(res) ELSE InvalidCredentials

\* C27 (as stated): a non-2xx response makes both wrappers raise the message
\* the server reported in the body, 'Invalid credentials' when it reports none
\* or is not JSON; a 2xx response makes them return the parsed body.
C27_WrapperCarriesServerMessage == WrapperCall => WrapperAsClaimed

\* C27, for the bodies that report their message in an error field (or report
\* none): the wrappers behave as claimed.
C27_HoldsForErrorField ==
  WrapperCall /\ ~(lib.arg.body.json /\ HasField(lib.arg.body.value, "message")) =>
    WrapperAsClaimed

\* C28 (as stated): with no path option the client posts to the default base
\* path joined with the path the server plugin registers,
\* /api/auth/sign-in/credentials.
C28_DefaultUrlIsServerPath ==
  ResolveCall /\ lib.arg.path = NoPath /\ lib.arg.basePath = NoPath =>
    /\ lib.out.url = DefaultBase \o EndpointPath(NoPath)
    /\ lib.out.url = <<"/", "api", "/", "auth", "/", "sign-in", "/", "credentials">>

\* C28, with the server's path given explicitly: the client posts to it.
C28_HoldsWithExplicitPath ==
  ResolveCall /\ lib.arg.path = EndpointPath(NoPath) /\ lib.arg.basePath = NoPath =>
    lib.out.url = DefaultBase \o EndpointPath(NoPath)

\* s without the slashes it ends with.
WithoutTrailingSlashes(s) ==
  LET ends == {k \in 0 .. Len(s) : \A i \in k + 1 .. Len(s) : s[i] = "/"}
      k == CHOOSE x \in ends : \A y \in ends : x <= y
  IN  SubSeq(s, 1, k)

\* s without the slashes it starts with.
WithoutLeadingSlashes(s) ==
  LET starts == {k \in 1 .. Len(s) + 1 : \A i \in 1 .. k - 1 : s[i] = "/"}
      k == CHOOSE x \in starts : \A y \in starts : x >= y
  IN  SubSeq(s, k, Len(s))

\* C29: a given path that is a full URL (http://, https:// or //) or starts
\* with /api/ is the request URL unchanged; any other given path follows
\* basePath (default /api/auth) with exactly one slash between them.
C29_UrlResolution ==
  ResolveCall /\ lib.arg.path # NoPath =>
    LET p == lib.arg.path
        base == IF lib.arg.basePath = NoPath
                  THEN <<"/", "api", "/", "auth">> ELSE lib.arg.basePath
        fullUrl == \E i \in 1 .. 2 :
                     /\ Len(p) > i
                     /\ p[i] = "/" /\ p[i + 1] = "/"
                     /\ i = 2 => p[1] \in {"http:", "https:", "HTTP:", "HTTPS:"}
        apiPath == Len(p) >= 3 /\ p[1] = "/" /\ p[2] = "api" /\ p[3] = "/"
    IN  IF fullUrl \/ apiPath
          THEN lib.out.url = p
          ELSE lib.out.url =
                 WithoutTrailingSlashes(base) \o <<"/">> \o WithoutLeadingSlashes(p)

\* C29 witness: a relative path was appended to a base path that ends with a
\* slash.
C29_Witness ==
  /\ ResolveCall
  /\ lib.arg.basePath = <<"/", "auth", "/">> /\ lib.arg.path = <<"/", "login">>
  /\ lib.out.url = <<"/", "auth", "/", "login">>

HasPart(parts, k) == \E i \in DOMAIN parts : parts[i].key = k
HasPair(parts, k, v) ==
  \E i \in DOMAIN parts : parts[i].key = k /\ ~parts[i].flag /\ parts[i].value = v
HasFlag(parts, k) == \E i \in DOMAIN parts : parts[i].key = k /\ parts[i].flag

\* The attributes of the test 'includes attributes'.
TestAttrs ==
  [httpOnly |-> "true", secure |-> "true", sameSite |-> "lax",
   domain |-> "example.com", path |-> AuthPath, maxAge |-> HalfSeconds(7200),
   expires |-> NewYear2030]

\* C30: serializeCookie emits name=value (the value URI-encoded) first, the
\* given Path, and the token of Max-Age, Expires, Domain, Secure, HttpOnly and
\* SameSite exactly when the attribute is set (a number or date given, a flag
\* true, a string non-empty); the test's attributes yield the test's tokens.
C30_CookieTokens ==
  SerializeCall =>
    LET a == lib.arg.attrs
        parts == lib.out.parts
    IN  /\ parts[1].key = lib.arg.name /\ ~parts[1].flag
        /\ parts[1].value =
             [i \in DOMAIN lib.arg.value |->
                IF lib.arg.value[i] = " " THEN "%20"
                ELSE IF lib.arg.value[i] = ";" THEN "%3B" ELSE lib.arg.value[i]]
        /\ \A i \in 2 .. Len(parts) : parts[i].key # lib.arg.name
        /\ HasPart(parts, "Max-Age") <=> a.maxAge.given
        /\ a.maxAge.given =>
             \E n \in {a.maxAge.halves, a.maxAge.halves - 1} :
               2 * (n \div 2) = n /\ HasPair(parts, "Max-Age", n \div 2)
        /\ HasPart(parts, "Expires") <=> a.expires # NotGiven
        /\ HasPart(parts, "Domain") <=> a.domain \notin {NotGiven, ""}
        /\ HasFlag(parts, "Secure") <=> a.secure = "true"
        /\ HasFlag(parts, "HttpOnly") <=> a.httpOnly = "true"
        /\ HasPart(parts, "SameSite") <=> a.sameSite # NotGiven
        /\ a.path # NoPath => HasPair(parts, "Path", a.path)
        /\ a = TestAttrs =>
             /\ HasFlag(parts, "HttpOnly") /\ HasFlag(parts, "Secure")
             /\ HasPair(parts, "SameSite", "Lax")
             /\ HasPair(parts, "Domain", "example.com")
             /\ HasPair(parts, "Path", <<"/", "auth">>)
             /\ HasPair(parts, "Max-Age", 3600)
             /\ HasPair(parts, "Expires", NewYear2030)

\* C30 witness: the test's attributes with a maxAge of 0 were serialised, and
\* Max-Age=0 was emitted.
C30_Witness ==
  /\ SerializeCall
  /\ lib.arg.attrs = [TestAttrs EXCEPT !.maxAge = HalfSeconds(0)]
  /\ HasPair(lib.out.parts, "Max-Age", 0)

\* C31: the verifier is called at most once; it has been called exactly when
\* the request carried a body that passed validation and has gone past the
\* verification step; and what it was given is the validated mapping (the
\* declared keys of the body), not the body as parsed.
C31_VerifierCalledOnceWithParsedData ==
  \A r \in Reqs :
    /\ calls[r].verify <= 1
    /\ calls[r].verify = 1 <=>
         (req[r].hasRequest /\ req[r].bodyOk /\ pc[r] \notin {"recv", "verify"})
    /\ calls[r].verify = 1 =>
         /\ "isAdmin" \notin hist[r].verifyInput
         /\ hist[r].verifyInput =
              {"email", "password"}
              \cup (IF req[r].rememberMe = "absent" THEN {} ELSE {"rememberMe"})

\* C31 witness: a body with an undeclared key passed validation and the
\* verifier was called once, without that key.
C31_Witness ==
  \E r \in Reqs :
    /\ req[r].extra /\ req[r].bodyOk /\ Done(r)
    /\ calls[r].verify = 1
    /\ hist[r].verifyInput = {"email", "password", "rememberMe"}

\* p is the part of e before its first "@" (all of e when it has none).
IsLocalPartOf(p, e) ==
  \E k \in 0 .. Len(e) :
    /\ p = SubSeq(e, 1, k)
    /\ \A i \in 1 .. k : e[i] # "@"
    /\ k = Len(e) \/ e[k + 1] = "@"

\* C32: the record the handler asks the store to create has the normalised
\* e-mail, the verifier's name if it gave one and otherwise the part of the
\* normalised e-mail before the first "@", no image, and emailVerified true.
C32_CreatedRecord ==
  \A r \in Reqs :
    hist[r].create # "none" =>
      LET a == hist[r].createArgs
      IN  /\ a.email = Canon(req[r].verify.email)
          /\ IF req[r].name # NoName
               THEN a.name = req[r].name
               ELSE IsLocalPartOf(a.name, a.email)
          /\ a.image = Null
          /\ a.emailVerified = TRUE

\* C32 witness: a user was created for " A@X " without a name, and one for
\* an e-mail with two "@" signs.
C32_Witness ==
  \E r \in Reqs :
    /\ hist[r].create = "ok" /\ req[r].name = NoName
    /\ req[r].verify.email = MailTwoAts
    /\ hist[r].createArgs.name = <<"a">>

\* C33: a create that returns no record without raising ends the request
\* with 500 USER_CREATION_FAILED, and neither the hook nor the session store
\* is called.
C33_EmptyCreateIs500 ==
  \A r \in Reqs :
    hist[r].create = "undefined" =>
      /\ FailedWith(r, 500) /\ resp[r].message = "USER_CREATION_FAILED"
      /\ calls[r].hook = 0 /\ calls[r].session = 0
      /\ ~session[r].made /\ ~cookie[r].set

\* C33 witness: a create returned no record.
C33_Witness ==
  \E r \in Reqs :
    /\ hist[r].create = "undefined" /\ Done(r)
    /\ calls[r].create = 1 /\ user[r] = 0

\* C34: when every awaited call returns or raises, every request eventually
\* reaches a terminal outcome, a 200 response or a failure.
C34_EveryRequestTerminates == <>(\A r \in Reqs : Done(r))

\* C34, the retry loop: it makes at most three lookups.
C34_LoopIsBounded == \A r \in Reqs : attempt[r] <= MaxAttempts

\* C34 witness: a request ended after the retry loop ran its three lookups.
C34_Witness ==
  \E r \in Reqs :
    /\ Done(r) /\ attempt[r] = MaxAttempts
    /\ resp[r].kind \in {"json", "APIError"}

\* What C35 says of a lookup that finds nothing: nothing is raised, and the
\* request goes on to auto-provisioning or to USER_NOT_FOUND.
AbsentLookupContinues(r) ==
  /\ hist[r].lookup = "absent" =>
        /\ ~(resp[r].kind = "TypeError" /\ LastStep(r) \in {"lookup", "retry"})
        /\ IF opts.autoSignUp
             THEN pc[r] = "create" \/ calls[r].create = 1
             ELSE FailedWith(r, 401) /\ resp[r].message = "USER_NOT_FOUND"
  /\ hist[r].lastRetrySaw # "threw"

\* C35 (as stated): a lookup that finds nothing never raises, whether the
\* store signals absence with null/undefined or with an object whose user
\* field is empty; the request continues to auto-provisioning or to
\* USER_NOT_FOUND, at the initial lookup and at each retry lookup.
C35_AbsentLookupNeverRaises == \A r \in Reqs : AbsentLookupContinues(r)

\* C35, for a store that signals absence with { user: null }: the claim holds.
C35_HoldsForUserFieldShape ==
  env.absentShape = "wrapper" => \A r \in Reqs : AbsentLookupContinues(r)

\* The session of request r records what the handler computed: the expiry
\* from the configuration, the address and agent from the headers.
RecordsComputedValues(r) ==
  LET h == req[r].headers
      d == session[r].data
  IN  /\ d.expiresAt =
           session[r].now
           + 1000 * (IF opts.sessionExpiresIn = 0 THEN 604800 ELSE opts.sessionExpiresIn)
      /\ d.ipAddress =
           IF h.forwardedFor # Null THEN h.forwardedFor
           ELSE IF h.connectingIp # Null THEN h.connectingIp ELSE Null
      /\ d.userAgent = h.userAgent

\* C36 (as stated): whatever mapping the hook returns, the expiresAt,
\* ipAddress and userAgent recorded on the session are those the handler
\* computed.
C36_HookCannotReplaceComputedValues ==
  \A r \in Reqs : session[r].made => RecordsComputedValues(r)

\* C36, for a hook whose mapping has none of the three keys (or no hook):
\* the claim holds.
C36_HoldsWithoutThoseKeys ==
  \A r \in Reqs :
    session[r].made /\ hist[r].hook # "override" => RecordsComputedValues(r)

\* C37: on every 200 there is one user record, found or created by the
\* request for the normalised verified e-mail, whose id is the response's
\* userId and, as a string, the userId given to the session store.
C37_SessionIsForResolvedUser ==
  \A r \in Reqs :
    Ok200(r) =>
      \E u \in users :
        /\ u.email = Canon(req[r].verify.email)
        /\ resp[r].userId = u.id
        /\ session[r].made
        /\ session[r].userId = <<"1", "2", "3", "4", "5", "6", "7", "8", "9">>[u.id]
        /\ \/ hist[r].create = "ok"
           \/ hist[r].lookup = "found"
           \/ hist[r].lastRetrySaw = "found"

\* C37 witness: a sign-in for b@x answered 200 while the store also held
\* the record of a@x.
C37_Witness ==
  \E r \in Reqs :
    /\ Ok200(r) /\ req[r].verify.email = MailB
    /\ \E u \in users : u.email = MailA /\ u.visible
    /\ session[r].userId = "2" /\ resp[r].userId = 2

\* C38: a cookie has been emitted only if the session store's create was
\* called before and returned a record with a non-empty id; a request that
\* ended in a failure carries no cookie.
C38_CookieOnlyAfterSession ==
  \A r \in Reqs :
    /\ cookie[r].set =>
         /\ hist[r].session = "ok" /\ calls[r].session = 1
         /\ \E i, j \in DOMAIN hist[r].steps :
              i < j /\ hist[r].steps[i] = "session" /\ hist[r].steps[j] = "cookie"
    /\ Done(r) /\ resp[r].kind # "json" => ~cookie[r].set

\* C38 witness: a cookie was emitted, as the last step, for a session that
\* the store created after the hook ran.
C38_Witness ==
  \E r \in Reqs :
    /\ cookie[r].set /\ hist[r].session = "ok"
    /\ LastStep(r) = "cookie" /\ opts.hasHook

\* Request r created a user and then failed at the hook or at session
\* creation.
FailedAfterCreate(r) ==
  /\ Done(r) /\ hist[r].create = "ok"
  /\ resp[r].kind # "json"
  /\ LastStep(r) \in {"hook", "session"}

\* The record request r created is in the store as it was created.
CreatedRecordKept(r) ==
  \E u \in users : u.id = user[r] /\ u.email = hist[r].createArgs.email

\* Request q makes its first lookup in this step.
FirstLookupOf(q) == pc[q] = "lookup" /\ pc'[q] # "lookup"

\* C39: after a request has created a user and then failed at the hook or at
\* session creation, the record stays in the store as created (no step
\* removes or rewrites a record), and a later sign-in for the same address,
\* looking up once the record is visible, finds it, holds that user and
\* moves on without calling create.
C39_CreatedUserSurvivesFailure ==
  /\ [](\A r \in Reqs : FailedAfterCreate(r) => CreatedRecordKept(r))
  /\ [][/\ \A u \in users : \E v \in users' : v.id = u.id /\ v.email = u.email
        /\ \A r, q \in Reqs :
             ( /\ r # q /\ FailedAfterCreate(r) /\ FirstLookupOf(q)
               /\ Canon(req[q].verify.email) = Canon(req[r].verify.email)
               /\ \E u \in users : u.id = user[r] /\ u.visible )
             => /\ user'[q] = user[r]
                /\ pc'[q] \in {"hook", "session"}
                /\ calls'[q].create = 0
                /\ users' = users]_vars

\* C39, the rest of the repeated sign-in: a request whose lookup found the
\* user never calls create.
C39_FoundNeverCreates ==
  \A q \in Reqs : hist[q].lookup = "found" => calls[q].create = 0

\* C39 witness: one sign-in created the user and failed at session creation;
\* the repeated sign-in, in the other spelling, found that user and got 200.
C39_Witness ==
  \E r, q \in Reqs :
    /\ r # q /\ FailedAfterCreate(r) /\ LastStep(r) = "session"
    /\ req[r].verify.email # req[q].verify.email
    /\ hist[q].lookup = "found" /\ calls[q].create = 0
    /\ Ok200(q) /\ resp[q].userId = user[r]
    /\ Cardinality(users) = 1

\* C40: the "do not remember" flag given to the session store is false when
\* the validated rememberMe is the boolean true, and true when it is false,
\* absent or no boolean.
C40_DontRememberFlag ==
  \A r \in Reqs :
    session[r].made =>
      /\ req[r].rememberMe = "true" => session[r].dontRemember = FALSE
      /\ req[r].rememberMe \in {"false", "absent", "string"} =>
           session[r].dontRemember = TRUE

\* C40 witness: a session was asked for with a rememberMe that is a string.
C40_Witness ==
  \E r \in Reqs :
    /\ session[r].made /\ req[r].rememberMe = "string"
    /\ session[r].dontRemember

====
